---- MODULE Spec2Model ----
(***************************************************************************)
(* Model of src/scripts/python/run_whisper.py: a command-line adapter that *)
(* converts an audio file to WAV with ffmpeg, transcribes it with Whisper  *)
(* and prints the text.  One invocation is a sequential process; its       *)
(* position in the script is pc.  The transcoder, the engine, the temp     *)
(* directory and the output streams are the environment, whose outcomes    *)
(* are chosen nondeterministically.                                        *)
(***************************************************************************)
EXTENDS Integers, Sequences, FiniteSets, TLC

\* ------------------------------------------------------------------ bounds
\* Largest len(sys.argv) tried (program name included).
MaxArgc == 4
\* Number of names the temp directory can hand out.
MaxTempNames == 2

\* ------------------------------------------------------- the environment
\* Invocations of the script; B runs only in the side-by-side specification.
Procs == {"A", "B"}
\* Python's None, for a name, and for an exit status not yet known.
None == "None"
NoStatus == -1
\* No invocation owns the file (there is no file).
NoProc == "nobody"
\* Filesystem paths: input audio files and names in the temp directory.
InputPath(i) == [kind |-> "input", id |-> i]
TempPath(n) == [kind |-> "temp", id |-> n]
NoPath == [kind |-> "none", id |-> 0]
TempNames == { TempPath(n) : n \in 1..MaxTempNames }

Prog == "run_whisper.py"
Paths == {InputPath(1), InputPath(2)}
\* Input audio files present on disk.
ExistingInputs == {InputPath(1)}
Models == {"base", "tiny"}
\* Language hints, as sequences of characters.
Languages == { <<>>,
               <<"a","u","t","o">>, <<"A","U","T","O">>, <<"A","u","t","o">>,
               <<"p","t">>, <<"P","T">>, <<"a","u","t">> }
\* Texts the engine may return.
Texts == {"hello", "ola mundo", ""}
\* Texts holding a character outside ASCII ("ola" stands for "ol" + a-acute).
NonAsciiTexts == {"ola mundo"}
Encodings == {"utf-8", "ascii"}

\* str.lower() on one character of the alphabet used by Languages.
LowerChar(c) ==
    CASE c = "A" -> "a"
      [] c = "U" -> "u"
      [] c = "T" -> "t"
      [] c = "O" -> "o"
      [] c = "P" -> "p"
      [] OTHER -> c

\* str.lower()
Lower(s) == [i \in 1..Len(s) |-> LowerChar(s[i])]

\* sys.argv values: program name, then up to three positional arguments,
\* then ignored extras.
RECURSIVE ArgvOfLen(_)
ArgvOfLen(n) ==
    IF n = 1 THEN { <<Prog>> }
    ELSE IF n = 2 THEN { <<Prog, p>> : p \in Paths }
    ELSE IF n = 3 THEN { <<Prog, p, m>> : p \in Paths, m \in Models }
    ELSE IF n = 4 THEN { <<Prog, p, m, l>> : p \in Paths, m \in Models, l \in Languages }
    ELSE { Append(a, "extra") : a \in ArgvOfLen(n - 1) }

Argvs == UNION { ArgvOfLen(n) : n \in 1..MaxArgc }

\* Command lines used when two invocations run side by side.
ConcArgvs == { a \in Argvs : Len(a) = 2 }

VARIABLES
    argv,            \* per invocation: sys.argv
    encoding,        \* per invocation: sys.stdout.encoding at start
    pc,              \* per invocation: position in the script
    original_audio_file,
    model_size,
    language,
    temp_wav_file_path,
    audio_to_transcribe,
    returncode,      \* process.returncode of ffmpeg, NoStatus before it exits
    result,          \* text returned by transcribe, None before it returns
    caught,          \* what raised into "except Exception", None if nothing
    pending,         \* exit status of a SystemExit in flight, NoStatus if none
    exitCode,        \* process exit status, NoStatus while running
    stdout,          \* per invocation: sequence of chunks written to stdout
    stderr,          \* per invocation: sequence of message tags on stderr
    fs,              \* temp directory: name -> owning invocation or NoProc
    calls,           \* per invocation: record of collaborator calls made
    unlinkFailed,    \* per invocation: os.unlink raised in the cleanup
    collisions       \* events where an invocation touched another's temp file

vars == << argv, encoding, pc, original_audio_file, model_size, language,
           temp_wav_file_path, audio_to_transcribe, returncode, result,
           caught, pending, exitCode, stdout, stderr, fs, calls, unlinkFailed,
           collisions >>

NoCalls == [ mktemp |-> <<>>, popen |-> <<>>, load_model |-> <<>>,
             transcribe |-> <<>>, unlink |-> <<>> ]

InitWith(started, argvs, encs) ==
    /\ argv \in [Procs -> argvs]
    /\ encoding \in [Procs -> encs]
    /\ \A p \in Procs \ started : argv[p] = <<Prog>> /\ encoding[p] = "utf-8"
    /\ pc = [p \in Procs |-> IF p \in started THEN "reconfigure" ELSE "off"]
    /\ original_audio_file = [p \in Procs |-> NoPath]
    /\ model_size = [p \in Procs |-> None]
    /\ language = [p \in Procs |-> <<>>]
    /\ temp_wav_file_path = [p \in Procs |-> NoPath]
    /\ audio_to_transcribe = [p \in Procs |-> NoPath]
    /\ returncode = [p \in Procs |-> NoStatus]
    /\ result = [p \in Procs |-> None]
    /\ caught = [p \in Procs |-> None]
    /\ pending = [p \in Procs |-> NoStatus]
    /\ exitCode = [p \in Procs |-> NoStatus]
    /\ stdout = [p \in Procs |-> <<>>]
    /\ stderr = [p \in Procs |-> <<>>]
    /\ fs = [n \in TempNames |-> NoProc]
    /\ calls = [p \in Procs |-> NoCalls]
    /\ unlinkFailed = [p \in Procs |-> FALSE]
    /\ collisions = {}

\* One invocation: the tool processes exactly one file per run.
Init == InitWith({"A"}, Argvs, Encodings)

\* Two separate invocations sharing one temp directory.
InitConc == InitWith(Procs, ConcArgvs, {"utf-8"})

\* print(..., file=sys.stderr)
EPrint(p, msgs) == stderr' = [stderr EXCEPT ![p] = @ \o msgs]

\* A collaborator call is recorded under its name.
Call(p, name, arg) == calls' = [calls EXCEPT ![p][name] = Append(@, arg)]

\* An exception propagates to "except Exception".
Raise(p, what) ==
    /\ caught' = [caught EXCEPT ![p] = what]
    /\ pc' = [pc EXCEPT ![p] = "except"]

\* lines 31-36: force UTF-8 on the output streams
Reconfigure(p) ==
    /\ pc[p] = "reconfigure"
    /\ pc' = [pc EXCEPT ![p] = "args"]
    /\ IF encoding[p] /= "utf-8"
       THEN \/ /\ encoding' = [encoding EXCEPT ![p] = "utf-8"]
               /\ UNCHANGED stderr
            \/ /\ UNCHANGED encoding
               /\ EPrint(p, <<"warning_reconfigure">>)
       ELSE UNCHANGED << encoding, stderr >>
    /\ UNCHANGED << argv, original_audio_file, model_size, language,
                    temp_wav_file_path, audio_to_transcribe, returncode,
                    result, caught, pending, exitCode, stdout, fs, calls,
                    unlinkFailed, collisions >>

\* lines 39-47: argument validation and defaults
Args(p) ==
    /\ pc[p] = "args"
    /\ IF Len(argv[p]) < 2
       THEN /\ EPrint(p, <<"erro_usage">>)
            /\ exitCode' = [exitCode EXCEPT ![p] = 1]
            /\ pc' = [pc EXCEPT ![p] = "done"]
            /\ UNCHANGED << original_audio_file, model_size, language >>
       ELSE /\ original_audio_file' = [original_audio_file EXCEPT ![p] = argv[p][2]]
            /\ model_size' = [model_size EXCEPT ![p] =
                                IF Len(argv[p]) > 2 THEN argv[p][3] ELSE "base"]
            /\ language' = [language EXCEPT ![p] =
                                IF Len(argv[p]) > 3 THEN argv[p][4]
                                ELSE <<"a","u","t","o">>]
            /\ pc' = [pc EXCEPT ![p] = "exists"]
            /\ UNCHANGED << stderr, exitCode >>
    /\ UNCHANGED << argv, encoding, temp_wav_file_path, audio_to_transcribe,
                    returncode, result, caught, pending, stdout, fs, calls,
                    unlinkFailed, collisions >>

\* CheckExists that reports a missing input but carries on.
CheckExistsNoExit(p) ==
    /\ pc[p] = "exists"
    /\ IF original_audio_file[p] \notin ExistingInputs
       THEN EPrint(p, <<"erro_not_found">>)
       ELSE UNCHANGED stderr
    /\ pc' = [pc EXCEPT ![p] = "mktemp"]
    /\ UNCHANGED << argv, encoding, original_audio_file, model_size, language,
                    temp_wav_file_path, audio_to_transcribe, returncode,
                    result, caught, pending, exitCode, stdout, fs, calls,
                    unlinkFailed, collisions >>

\* lines 50-52: the input file must exist; sys.exit(1) raises SystemExit,
\* which "except Exception" does not catch and the finally block sees.
CheckExists(p) ==
    /\ pc[p] = "exists"
    /\ IF original_audio_file[p] \notin ExistingInputs
       THEN /\ EPrint(p, <<"erro_not_found">>)
            /\ pending' = [pending EXCEPT ![p] = 1]
            /\ pc' = [pc EXCEPT ![p] = "finally"]
       ELSE /\ pc' = [pc EXCEPT ![p] = "mktemp"]
            /\ UNCHANGED << stderr, pending >>
    /\ UNCHANGED << argv, encoding, original_audio_file, model_size, language,
                    temp_wav_file_path, audio_to_transcribe, returncode,
                    result, caught, exitCode, stdout, fs, calls,
                    unlinkFailed, collisions >>

\* lines 59-72: tempfile.NamedTemporaryFile(suffix=".wav", delete=False)
\* creates a file under a name no existing file has, or raises.
MkTemp(p) ==
    /\ pc[p] = "mktemp"
    /\ \/ \E n \in TempNames :
            /\ fs[n] = NoProc
            /\ fs' = [fs EXCEPT ![n] = p]
            /\ temp_wav_file_path' = [temp_wav_file_path EXCEPT ![p] = n]
            /\ Call(p, "mktemp", n)
            /\ EPrint(p, <<"info_converting">>)
            /\ pc' = [pc EXCEPT ![p] = "popen"]
            /\ UNCHANGED caught
       \/ /\ Raise(p, "mktemp")
          /\ UNCHANGED << fs, temp_wav_file_path, calls, stderr >>
    /\ UNCHANGED << argv, encoding, original_audio_file, model_size, language,
                    audio_to_transcribe, returncode, result, pending,
                    exitCode, stdout, unlinkFailed, collisions >>

\* line 74: subprocess.Popen(ffmpeg_command, ...) starts ffmpeg or raises
Popen(p) ==
    /\ pc[p] = "popen"
    /\ Call(p, "popen", [input |-> original_audio_file[p],
                         output |-> temp_wav_file_path[p]])
    /\ \/ /\ pc' = [pc EXCEPT ![p] = "communicate"]
          /\ UNCHANGED caught
       \/ Raise(p, "popen")
    /\ UNCHANGED << argv, encoding, original_audio_file, model_size, language,
                    temp_wav_file_path, audio_to_transcribe, returncode,
                    result, pending, exitCode, stdout, stderr, fs,
                    unlinkFailed, collisions >>

\* A touch of a temp file that belongs to another invocation.
Touch(p, n, kind) ==
    IF fs[n] \notin {NoProc, p}
    THEN collisions \cup { [by |-> p, victim |-> fs[n], name |-> n, kind |-> kind] }
    ELSE collisions

\* Communicate that transcribes the temp path whatever ffmpeg returned.
CommunicateAlwaysTemp(p) ==
    /\ pc[p] = "communicate"
    /\ LET t == temp_wav_file_path[p] IN
       /\ \/ /\ returncode' = [returncode EXCEPT ![p] = 0]
             /\ fs' = [fs EXCEPT ![t] = p]
             /\ collisions' = Touch(p, t, "overwrite")
             /\ EPrint(p, <<"info_converted">>)
          \/ /\ returncode' = [returncode EXCEPT ![p] = 1]
             /\ \/ UNCHANGED << fs, collisions >>
                \/ /\ fs[t] /= NoProc
                   /\ fs' = [fs EXCEPT ![t] = NoProc]
                   /\ collisions' = Touch(p, t, "delete")
             /\ EPrint(p, <<"erro_ffmpeg", "ffmpeg_stdout", "ffmpeg_stderr",
                            "info_fallback">>)
       /\ audio_to_transcribe' = [audio_to_transcribe EXCEPT ![p] = t]
    /\ pc' = [pc EXCEPT ![p] = "load_model"]
    /\ UNCHANGED << argv, encoding, original_audio_file, model_size, language,
                    temp_wav_file_path, result, caught, pending, exitCode,
                    stdout, calls, unlinkFailed >>

\* Communicate that treats a non-zero ffmpeg status as an error to raise.
CommunicateAbortsOnFailure(p) ==
    /\ pc[p] = "communicate"
    /\ LET t == temp_wav_file_path[p] IN
       \/ /\ returncode' = [returncode EXCEPT ![p] = 0]
          /\ fs' = [fs EXCEPT ![t] = p]
          /\ collisions' = Touch(p, t, "overwrite")
          /\ EPrint(p, <<"info_converted">>)
          /\ audio_to_transcribe' = [audio_to_transcribe EXCEPT ![p] = t]
          /\ pc' = [pc EXCEPT ![p] = "load_model"]
          /\ UNCHANGED caught
       \/ /\ returncode' = [returncode EXCEPT ![p] = 1]
          /\ EPrint(p, <<"erro_ffmpeg", "ffmpeg_stdout", "ffmpeg_stderr">>)
          /\ Raise(p, "communicate")
          /\ UNCHANGED << fs, collisions, audio_to_transcribe >>
    /\ UNCHANGED << argv, encoding, original_audio_file, model_size, language,
                    temp_wav_file_path, result, pending, exitCode,
                    stdout, calls, unlinkFailed >>

\* lines 75-87: wait for ffmpeg, then choose the file to transcribe.
\* ffmpeg -y writes the output path on success; on failure the output may be
\* left in place or be gone.
Communicate(p) ==
    /\ pc[p] = "communicate"
    /\ LET t == temp_wav_file_path[p] IN
       \/ /\ returncode' = [returncode EXCEPT ![p] = 0]
          /\ fs' = [fs EXCEPT ![t] = p]
          /\ collisions' = Touch(p, t, "overwrite")
          /\ EPrint(p, <<"info_converted">>)
          /\ audio_to_transcribe' = [audio_to_transcribe EXCEPT ![p] = t]
       \/ /\ returncode' = [returncode EXCEPT ![p] = 1]
          /\ \/ UNCHANGED << fs, collisions >>
             \/ /\ fs[t] /= NoProc
                /\ fs' = [fs EXCEPT ![t] = NoProc]
                /\ collisions' = Touch(p, t, "delete")
          /\ EPrint(p, <<"erro_ffmpeg", "ffmpeg_stdout", "ffmpeg_stderr",
                         "info_fallback">>)
          /\ audio_to_transcribe' = [audio_to_transcribe EXCEPT ![p] =
                                        original_audio_file[p]]
    /\ pc' = [pc EXCEPT ![p] = "load_model"]
    /\ UNCHANGED << argv, encoding, original_audio_file, model_size, language,
                    temp_wav_file_path, result, caught, pending, exitCode,
                    stdout, calls, unlinkFailed >>

\* line 91: whisper.load_model(model_size) returns a model or raises
LoadModel(p) ==
    /\ pc[p] = "load_model"
    /\ Call(p, "load_model", model_size[p])
    /\ \/ /\ pc' = [pc EXCEPT ![p] = "transcribe"]
          /\ UNCHANGED caught
       \/ Raise(p, "load_model")
    /\ UNCHANGED << argv, encoding, original_audio_file, model_size, language,
                    temp_wav_file_path, audio_to_transcribe, returncode,
                    result, pending, exitCode, stdout, stderr, fs,
                    unlinkFailed, collisions >>

\* Options comparing the hint with "auto" without lowering it.
OptionsCaseSensitive(lang) ==
    [k \in (IF lang /= <<>> /\ lang /= <<"a","u","t","o">>
            THEN {"language"} ELSE {}) |-> lang]

\* lines 93-95: the keyword options of transcribe, a function from option
\* name to value
Options(lang) ==
    [k \in (IF lang /= <<>> /\ Lower(lang) /= <<"a","u","t","o">>
            THEN {"language"} ELSE {}) |-> lang]

\* TranscribeCall that removes the temp file before the engine reads it.
TranscribeCallAfterCleanup(p) ==
    /\ pc[p] = "transcribe"
    /\ EPrint(p, <<"info_transcribing">>)
    /\ Call(p, "transcribe", [path |-> audio_to_transcribe[p],
                              options |-> Options(language[p])])
    /\ fs' = [fs EXCEPT ![temp_wav_file_path[p]] = NoProc]
    /\ pc' = [pc EXCEPT ![p] = "transcribing"]
    /\ UNCHANGED << argv, encoding, original_audio_file, model_size, language,
                    temp_wav_file_path, audio_to_transcribe, returncode,
                    result, caught, pending, exitCode, stdout,
                    unlinkFailed, collisions >>

\* lines 93-99: build the options and enter model.transcribe
TranscribeCall(p) ==
    /\ pc[p] = "transcribe"
    /\ EPrint(p, <<"info_transcribing">>)
    /\ Call(p, "transcribe", [path |-> audio_to_transcribe[p],
                              options |-> Options(language[p])])
    /\ pc' = [pc EXCEPT ![p] = "transcribing"]
    /\ UNCHANGED << argv, encoding, original_audio_file, model_size, language,
                    temp_wav_file_path, audio_to_transcribe, returncode,
                    result, caught, pending, exitCode, stdout, fs,
                    unlinkFailed, collisions >>

\* line 99: model.transcribe returns a result or raises
TranscribeReturn(p) ==
    /\ pc[p] = "transcribing"
    /\ \/ \E t \in Texts :
            /\ result' = [result EXCEPT ![p] = t]
            /\ pc' = [pc EXCEPT ![p] = "print"]
            /\ UNCHANGED caught
       \/ /\ Raise(p, "transcribe")
          /\ UNCHANGED result
    /\ UNCHANGED << argv, encoding, original_audio_file, model_size, language,
                    temp_wav_file_path, audio_to_transcribe, returncode,
                    pending, exitCode, stdout, stderr, fs, calls,
                    unlinkFailed, collisions >>

\* sys.stdout encodes with errors="strict"
Encodable(text, enc) == enc = "utf-8" \/ text \notin NonAsciiTexts

\* line 102: print(result["text"]) writes the text and a newline, or raises
\* (UnicodeEncodeError, an I/O error) before anything is written
PrintResult(p) ==
    /\ pc[p] = "print"
    /\ \/ /\ Encodable(result[p], encoding[p])
          /\ stdout' = [stdout EXCEPT ![p] = @ \o <<result[p], "\n">>]
          /\ pc' = [pc EXCEPT ![p] = "finally"]
          /\ UNCHANGED caught
       \/ /\ Raise(p, "print")
          /\ UNCHANGED stdout
    /\ UNCHANGED << argv, encoding, original_audio_file, model_size, language,
                    temp_wav_file_path, audio_to_transcribe, returncode,
                    result, pending, exitCode, stderr, fs, calls,
                    unlinkFailed, collisions >>

\* Except that reports the error on stdout.
ExceptPrintsToStdout(p) ==
    /\ pc[p] = "except"
    /\ stdout' = [stdout EXCEPT ![p] = @ \o <<"erro_script", "\n">>]
    /\ pending' = [pending EXCEPT ![p] = 1]
    /\ pc' = [pc EXCEPT ![p] = "finally"]
    /\ UNCHANGED << argv, encoding, original_audio_file, model_size, language,
                    temp_wav_file_path, audio_to_transcribe, returncode,
                    result, caught, exitCode, stderr, fs, calls,
                    unlinkFailed, collisions >>

\* Except that reports the error but does not call sys.exit(1).
ExceptNoExit(p) ==
    /\ pc[p] = "except"
    /\ EPrint(p, <<"erro_script">>)
    /\ pc' = [pc EXCEPT ![p] = "finally"]
    /\ UNCHANGED << argv, encoding, original_audio_file, model_size, language,
                    temp_wav_file_path, audio_to_transcribe, returncode,
                    result, caught, pending, exitCode, stdout, fs, calls,
                    unlinkFailed, collisions >>

\* lines 104-106: except Exception: report on stderr, sys.exit(1)
Except(p) ==
    /\ pc[p] = "except"
    /\ EPrint(p, <<"erro_script">>)
    /\ pending' = [pending EXCEPT ![p] = 1]
    /\ pc' = [pc EXCEPT ![p] = "finally"]
    /\ UNCHANGED << argv, encoding, original_audio_file, model_size, language,
                    temp_wav_file_path, audio_to_transcribe, returncode,
                    result, caught, exitCode, stdout, fs, calls,
                    unlinkFailed, collisions >>

\* The process ends: status of the SystemExit in flight, 0 without one.
Exit(p) ==
    /\ exitCode' = [exitCode EXCEPT ![p] = IF pending[p] = NoStatus THEN 0 ELSE pending[p]]
    /\ pc' = [pc EXCEPT ![p] = "done"]

\* Finally that cleans up only when no exit is in flight.
FinallyOnSuccessOnly(p) ==
    /\ pc[p] = "finally"
    /\ IF /\ pending[p] = NoStatus
          /\ temp_wav_file_path[p] /= NoPath
          /\ fs[temp_wav_file_path[p]] /= NoProc
       THEN /\ pc' = [pc EXCEPT ![p] = "unlink"]
            /\ UNCHANGED exitCode
       ELSE Exit(p)
    /\ UNCHANGED << argv, encoding, original_audio_file, model_size, language,
                    temp_wav_file_path, audio_to_transcribe, returncode,
                    result, caught, pending, stdout, stderr, fs, calls,
                    unlinkFailed, collisions >>

\* lines 107-109: finally: is there a temp path, and a file at it?
Finally(p) ==
    /\ pc[p] = "finally"
    /\ IF temp_wav_file_path[p] /= NoPath /\ fs[temp_wav_file_path[p]] /= NoProc
       THEN /\ pc' = [pc EXCEPT ![p] = "unlink"]
            /\ UNCHANGED exitCode
       ELSE Exit(p)
    /\ UNCHANGED << argv, encoding, original_audio_file, model_size, language,
                    temp_wav_file_path, audio_to_transcribe, returncode,
                    result, caught, pending, stdout, stderr, fs, calls,
                    unlinkFailed, collisions >>

\* Unlink whose failure ends the process with status 1.
UnlinkFailureFatal(p) ==
    /\ pc[p] = "unlink"
    /\ LET t == temp_wav_file_path[p] IN
       /\ Call(p, "unlink", t)
       /\ \/ /\ fs[t] /= NoProc
             /\ fs' = [fs EXCEPT ![t] = NoProc]
             /\ collisions' = Touch(p, t, "delete")
             /\ EPrint(p, <<"info_removed">>)
             /\ UNCHANGED unlinkFailed
             /\ Exit(p)
          \/ /\ EPrint(p, <<"warning_unlink">>)
             /\ unlinkFailed' = [unlinkFailed EXCEPT ![p] = TRUE]
             /\ exitCode' = [exitCode EXCEPT ![p] = 1]
             /\ pc' = [pc EXCEPT ![p] = "done"]
             /\ UNCHANGED << fs, collisions >>
    /\ UNCHANGED << argv, encoding, original_audio_file, model_size, language,
                    temp_wav_file_path, audio_to_transcribe, returncode,
                    result, caught, pending, stdout >>

\* lines 110-114: os.unlink(temp_wav_file_path) removes whatever file is at
\* the path, or raises, which is reported as a warning
Unlink(p) ==
    /\ pc[p] = "unlink"
    /\ LET t == temp_wav_file_path[p] IN
       /\ Call(p, "unlink", t)
       /\ \/ /\ fs[t] /= NoProc
             /\ fs' = [fs EXCEPT ![t] = NoProc]
             /\ collisions' = Touch(p, t, "delete")
             /\ EPrint(p, <<"info_removed">>)
             /\ UNCHANGED unlinkFailed
          \/ /\ EPrint(p, <<"warning_unlink">>)
             /\ unlinkFailed' = [unlinkFailed EXCEPT ![p] = TRUE]
             /\ UNCHANGED << fs, collisions >>
    /\ Exit(p)
    /\ UNCHANGED << argv, encoding, original_audio_file, model_size, language,
                    temp_wav_file_path, audio_to_transcribe, returncode,
                    result, caught, pending, stdout >>

Next ==
    \E p \in Procs :
        \/ Reconfigure(p)
        \/ Args(p)
        \/ CheckExists(p)
        \/ MkTemp(p)
        \/ Popen(p)
        \/ Communicate(p)
        \/ LoadModel(p)
        \/ TranscribeCall(p)
        \/ TranscribeReturn(p)
        \/ PrintResult(p)
        \/ Except(p)
        \/ Finally(p)
        \/ Unlink(p)

Spec == Init /\ [][Next]_vars

SpecConc == InitConc /\ [][Next]_vars

\* ------------------------------------------------------------ properties
Has(seq, x) == \E i \in 1..Len(seq) : seq[i] = x
Done(p) == pc[p] = "done"
Created(p) == calls[p].mktemp /= <<>>
\* The language hint of the command line, with its default.
Hint(p) == IF Len(argv[p]) > 3 THEN argv[p][4] ELSE <<"a","u","t","o">>
\* Every spelling of "auto" in upper and lower case.
AutoSpellings ==
    { <<a, u, t, o>> : a \in {"a","A"}, u \in {"u","U"},
                       t \in {"t","T"}, o \in {"o","O"} }
UsageError(p) == Len(argv[p]) < 2
MissingInput(p) == Len(argv[p]) >= 2 /\ argv[p][2] \notin ExistingInputs
EngineRaised(p) == caught[p] \in {"load_model", "transcribe"}
Payload(p) == <<result[p], "\n">>

\* C1: stdout holds nothing, or exactly the engine's text followed by one
\* newline; it holds the payload only in a run that exits 0; no message of
\* any branch is on stdout.
C1_StdoutIsPayloadOnly ==
    \A p \in Procs :
        /\ stdout[p] = <<>> \/ (result[p] /= None /\ stdout[p] = Payload(p))
        /\ stdout[p] /= <<>> /\ Done(p) => exitCode[p] = 0
        /\ Done(p) /\ exitCode[p] /= 0 => stdout[p] = <<>> /\ stderr[p] /= <<>>

C1_Witness ==
    \E p \in Procs :
        /\ Done(p) /\ exitCode[p] = 0 /\ unlinkFailed[p]
        /\ stdout[p] = <<"ola mundo", "\n">>
        /\ Has(stderr[p], "info_transcribing")

\* C2: once the temp file was created, the process does not end with the
\* file on disk, unless the deletion attempt itself failed.
C2_TempFileNotLeaked ==
    \A p \in Procs :
        Done(p) /\ Created(p) /\ ~unlinkFailed[p]
            => fs[temp_wav_file_path[p]] = NoProc

C2_Witness ==
    \E p \in Procs :
        /\ Done(p) /\ Created(p) /\ caught[p] = "print"
        /\ calls[p].unlink /= <<>> /\ ~unlinkFailed[p]
        /\ fs[temp_wav_file_path[p]] = NoProc

\* C3 as stated: after a non-zero ffmpeg status the run goes on to load the
\* model and to transcribe the original input once, and exits 0 whenever
\* that transcription returned.
C3_Original ==
    \A p \in Procs :
        Done(p) /\ returncode[p] = 1 =>
            /\ Len(calls[p].load_model) = 1
            /\ caught[p] /= "load_model" =>
                  /\ Len(calls[p].transcribe) = 1
                  /\ calls[p].transcribe[1].path = original_audio_file[p]
            /\ result[p] /= None => exitCode[p] = 0

\* C3 amended: after a non-zero ffmpeg status the run goes on to load the
\* model and, if it loads, to transcribe the original input once; it exits
\* 0 whenever that transcription returned and printing the text did not
\* raise.
C3_FallbackToOriginal ==
    \A p \in Procs :
        Done(p) /\ returncode[p] = 1 =>
            /\ Len(calls[p].load_model) = 1
            /\ caught[p] /= "load_model" =>
                  /\ Len(calls[p].transcribe) = 1
                  /\ calls[p].transcribe[1].path = original_audio_file[p]
            /\ result[p] /= None /\ caught[p] /= "print" => exitCode[p] = 0

C3_Witness ==
    \E p \in Procs :
        /\ Done(p) /\ returncode[p] = 1 /\ exitCode[p] = 0
        /\ calls[p].transcribe = << [path |-> InputPath(1), options |-> <<>>] >>
        /\ stdout[p] = <<"hello", "\n">>

\* C4 as stated: when load_model or transcribe raises, the exit status is
\* non-zero, stdout is empty, the error is on stderr and the temp file, if
\* created, is gone.
C4_Original ==
    \A p \in Procs :
        Done(p) /\ EngineRaised(p) =>
            /\ exitCode[p] /= 0
            /\ stdout[p] = <<>>
            /\ Has(stderr[p], "erro_script")
            /\ Created(p) => fs[temp_wav_file_path[p]] = NoProc

\* C4 amended: as stated, except that the temp file is gone unless the
\* deletion attempt itself failed, which leaves a warning on stderr.
C4_EngineFailure ==
    \A p \in Procs :
        Done(p) /\ EngineRaised(p) =>
            /\ exitCode[p] /= 0
            /\ stdout[p] = <<>>
            /\ Has(stderr[p], "erro_script")
            /\ Created(p) /\ ~unlinkFailed[p] => fs[temp_wav_file_path[p]] = NoProc
            /\ unlinkFailed[p] => Has(stderr[p], "warning_unlink")

C4_Witness ==
    \E p \in Procs :
        /\ Done(p) /\ caught[p] = "transcribe" /\ returncode[p] = 0
        /\ exitCode[p] = 1 /\ calls[p].unlink /= <<>> /\ ~unlinkFailed[p]
        /\ fs[temp_wav_file_path[p]] = NoProc

\* C5: with the path argument missing, or naming no file, no temp file is
\* created, ffmpeg is not started, no model is loaded and nothing is
\* transcribed or written to stdout; the run ends with a non-zero status
\* and a diagnostic on stderr.
C5_FatalInputErrors ==
    \A p \in Procs :
        UsageError(p) \/ MissingInput(p) =>
            /\ calls[p] = NoCalls
            /\ temp_wav_file_path[p] = NoPath
            /\ stdout[p] = <<>>
            /\ pc[p] \in {"off", "reconfigure", "args", "exists", "finally", "done"}
            /\ Done(p) =>
                  /\ exitCode[p] = 1
                  /\ Has(stderr[p], IF UsageError(p) THEN "erro_usage"
                                    ELSE "erro_not_found")

C5_Witness ==
    \E p \in Procs :
        /\ pc[p] /= "off" /\ Done(p) /\ MissingInput(p) /\ exitCode[p] = 1

\* C6 as stated: a non-zero exit comes only from a usage error, a missing
\* input or an engine failure; no transcoder failure ends the process.
C6_Original ==
    \A p \in Procs :
        Done(p) /\ exitCode[p] /= 0 =>
            UsageError(p) \/ MissingInput(p) \/ EngineRaised(p)

\* C6 amended: the exit status is non-zero exactly after a usage error, a
\* missing input, or an exception caught at the top level (creating the
\* temp file, starting ffmpeg, loading the model, transcribing, printing the
\* text); a non-zero ffmpeg status is never such an exception, and the run
\* that meets nothing else exits 0.
C6_ExitCauses ==
    \A p \in Procs :
        /\ caught[p] \in {None, "mktemp", "popen", "load_model", "transcribe", "print"}
        /\ Done(p) =>
              /\ exitCode[p] \in {0, 1}
              /\ exitCode[p] /= 0 <=>
                    UsageError(p) \/ MissingInput(p) \/ caught[p] /= None

C6_Witness ==
    \E p \in Procs :
        /\ Done(p) /\ returncode[p] = 1 /\ caught[p] = None /\ exitCode[p] = 0
        /\ Has(stderr[p], "info_fallback")

\* C7: transcribe gets a language option exactly when the hint is not
\* empty and is no spelling of "auto"; the option is the hint as typed, and
\* there is no other option.
C7_LanguageOption ==
    \A p \in Procs :
        \A i \in 1..Len(calls[p].transcribe) :
            LET o == calls[p].transcribe[i].options IN
            /\ DOMAIN o \subseteq {"language"}
            /\ "language" \in DOMAIN o <=>
                  Hint(p) /= <<>> /\ Hint(p) \notin AutoSpellings
            /\ "language" \in DOMAIN o => o["language"] = Hint(p)

C7_Witness ==
    \E p \in Procs :
        /\ Len(calls[p].transcribe) = 1
        /\ Hint(p) = <<"P","T">>
        /\ calls[p].transcribe[1].options = [k \in {"language"} |-> <<"P","T">>]

\* C8: a failed deletion of the temp file leaves a warning on stderr and
\* changes neither the exit status (0 after a clean run, 1 after a caught
\* exception) nor stdout.
C8_CleanupFailureNotFatal ==
    \A p \in Procs :
        Done(p) /\ unlinkFailed[p] =>
            /\ stderr[p][Len(stderr[p])] = "warning_unlink"
            /\ exitCode[p] = IF caught[p] = None THEN 0 ELSE 1
            /\ stdout[p] = IF caught[p] = None THEN Payload(p) ELSE <<>>

C8_Witness ==
    \E p \in Procs :
        /\ Done(p) /\ unlinkFailed[p] /\ caught[p] = "load_model"
        /\ exitCode[p] = 1

\* C9: after ffmpeg returned 0, transcribe is called on the temp path only,
\* the temp file is on disk while ffmpeg and transcribe run, and the cleanup
\* is not attempted before the run has left both.
C9_TempFilePresentDuringTranscribe ==
    \A p \in Procs :
        /\ returncode[p] = 0 =>
              \A i \in 1..Len(calls[p].transcribe) :
                  calls[p].transcribe[i].path = temp_wav_file_path[p]
        /\ pc[p] = "communicate" => fs[temp_wav_file_path[p]] = p
        /\ pc[p] = "transcribing" /\ returncode[p] = 0 =>
              fs[temp_wav_file_path[p]] = p
        /\ calls[p].unlink /= <<>> =>
              /\ Done(p)
              /\ caught[p] /= "popen" => returncode[p] /= NoStatus
              /\ calls[p].transcribe /= <<>> =>
                    result[p] /= None \/ caught[p] = "transcribe"

C9_Witness ==
    \E p \in Procs :
        /\ pc[p] = "transcribing" /\ returncode[p] = 0
        /\ calls[p].transcribe[1].path = temp_wav_file_path[p]
        /\ fs[temp_wav_file_path[p]] = p

\* C10: two invocations side by side never overwrite or delete a temp file
\* that belongs to the other one, also after a failed ffmpeg run left no
\* file at the invocation's temp path.  (MkTemp only hands out a name no
\* file has, so a collision can come only from ffmpeg's output or from the
\* cleanup; each such touch of a foreign file is recorded in collisions.)
C10_NoCollision == collisions = {}
====
